---- MODULE Spec2Model ----
(***************************************************************************)
(* Model of wayland_fifo_test (src/src/main.rs): a Wayland client that     *)
(* draws into a pool of four shm buffers from a single-threaded calloop    *)
(* event loop, optionally pacing its commits with wp_fifo_v1.              *)
(*                                                                         *)
(* The client state is the SimpleWindow struct plus the draw callbacks     *)
(* registered in the event loop (immediate timers and idle callbacks).     *)
(* The display server is the environment: it delivers configure, close     *)
(* and buffer release events and presents the committed frames.            *)
(***************************************************************************)
EXTENDS Integers, Sequences, FiniteSets, TLC

\* ---------------------------------------------------------------- constants

\* buffers: [Buffer; 4]
BufferCount == 4

\* bound of the model's clock (Instant::now() is read from it)
MaxClock == 2

Buffers == 0 .. (BufferCount - 1)

\* Option::None of the buffer lookup and of last_draw
NoBuffer == -1
NoInstant == -1

VARIABLES
    pc,              \* position of main: start, poll, events, idles, done, aborted
    no_fifo,         \* Args::no_fifo
    fifoAvail,       \* whether the server offers wp_fifo_manager_v1
    fifo,            \* SimpleWindow::fifo is Some
    exit,            \* SimpleWindow::exit
    first_configure, \* SimpleWindow::first_configure
    inUse,           \* per buffer: the slot is active (pool.canvas() is None)
    last_draw,       \* SimpleWindow::last_draw
    clock,           \* Instant::now()
    timers,          \* Timer::immediate() sources registered in the loop
    timerReady,      \* timers the current poll found expired, not yet run
    idles,           \* idle callbacks queued by insert_idle
    idleBatch,       \* idle callbacks taken by this round, not yet run
    wl,              \* Wayland source in this round: none, ready, active, done
    wire,            \* requests sent by the last handler, in order
    frames,          \* server: committed frames not yet presented
    attached,        \* server: buffers attached and not yet released
    last,            \* the last handler: its name, whether it ran draw(), buffer
    failed           \* handlers whose draw() found no buffer in this round

vars == << pc, no_fifo, fifoAvail, fifo, exit, first_configure, inUse,
           last_draw, clock, timers, timerReady, idles, idleBatch, wl, wire,
           frames, attached, last, failed >>

Range(s) == { s[i] : i \in DOMAIN s }

Count(s, x) == Cardinality({ i \in DOMAIN s : s[i] = x })

\* positions of request x in the sequence s
Positions(s, x) == { i \in DOMAIN s : s[i] = x }

InUseSet == { b \in Buffers : inUse[b] }

\* ------------------------------------------------------------------- main

\* BindFifo that forgets the no_fifo flag
BindFifoIgnoresFlag(disabled, available) == available

\* main, lines 67-80: the fifo handle exists iff fifo was not disabled and
\* the global could be bound
BindFifo(disabled, available) == IF ~disabled THEN available ELSE FALSE

\* main, lines 78-83: get_fifo when a manager was bound, then the window's
\* title, minimal size and the initial commit
SetupRequests(hasFifo) ==
    (IF hasFifo THEN << "get_fifo" >> ELSE << >>)
        \o << "set_title", "set_min_size", "commit" >>

Handler(op) ==
    [ op |-> op, drew |-> FALSE, buf |-> NoBuffer, steps |-> << >> ]

Init ==
    /\ pc = "start"
    /\ no_fifo \in BOOLEAN
    /\ fifoAvail \in BOOLEAN
    /\ fifo = FALSE
    /\ exit = FALSE
    /\ first_configure = TRUE
    /\ inUse = [ b \in Buffers |-> FALSE ]
    /\ last_draw = NoInstant
    /\ clock = 0
    /\ timers = 0
    /\ timerReady = 0
    /\ idles = 0
    /\ idleBatch = 0
    /\ wl = "none"
    /\ wire = << >>
    /\ frames = << >>
    /\ attached = {}
    /\ last = Handler("init")
    /\ failed = << >>

\* Setup that arms a draw before the loop starts
SetupDrawsAtOnce ==
    /\ pc = "start"
    /\ fifo' = BindFifo(no_fifo, fifoAvail)
    /\ wire' = SetupRequests(fifo')
    /\ last' = Handler("setup")
    /\ pc' = "poll"
    /\ timers' = 1
    /\ UNCHANGED << no_fifo, fifoAvail, exit, first_configure, inUse,
                    last_draw, clock, timerReady, idles, idleBatch,
                    wl, frames, attached, failed >>

\* main, lines 50-156: everything before the loop
Setup ==
    /\ pc = "start"
    /\ fifo' = BindFifo(no_fifo, fifoAvail)
    /\ wire' = SetupRequests(fifo')
    /\ last' = Handler("setup")
    /\ pc' = "poll"
    /\ UNCHANGED << no_fifo, fifoAvail, exit, first_configure, inUse,
                    last_draw, clock, timers, timerReady, idles, idleBatch,
                    wl, frames, attached, failed >>

\* ------------------------------------------------------- SimpleWindow::draw

\* FindFree that does not ask whether the canvas is available
FindFreeUnchecked(use) == 0

\* FindFree that scans the array from its end
FindFreeFromEnd(use) ==
    IF \E b \in Buffers : ~use[b]
    THEN CHOOSE b \in Buffers : ~use[b] /\ \A c \in Buffers : c > b => use[c]
    ELSE NoBuffer

\* FindFree that looks at the first buffer only
FindFreeFirstOnly(use) == IF ~use[0] THEN 0 ELSE NoBuffer

\* draw, lines 300-303: the first buffer of the array whose canvas is
\* available, that is, whose slot is not active
FindFree(use) ==
    IF \E b \in Buffers : ~use[b]
    THEN CHOOSE b \in Buffers : ~use[b] /\ \A c \in Buffers : c < b => use[c]
    ELSE NoBuffer

\* AttachTo that does not activate the slot
AttachToNoMark(use, b) == [ ok |-> ~use[b], inUse |-> use ]

\* draw, lines 315-317: Buffer::attach_to activates the slot and fails when it
\* is active already
AttachTo(use, b) ==
    [ ok |-> ~use[b], inUse |-> [ use EXCEPT ![b] = TRUE ] ]

\* PacingRequests with the pair in the wrong order
PacingRequestsSwapped(hasFifo) ==
    IF hasFifo THEN << "set_barrier", "wait_barrier" >> ELSE << >>

\* draw, lines 319-322
PacingRequests(hasFifo) ==
    IF hasFifo THEN << "wait_barrier", "set_barrier" >> ELSE << >>

\* ScheduleNext that arms the timer on the retry path as well
ScheduleNextBoth(found) ==
    IF found THEN [ timer |-> 1, idle |-> 0 ] ELSE [ timer |-> 1, idle |-> 1 ]

\* draw, lines 305-307 and 326-331: the follow-up draw
ScheduleNext(found) ==
    IF found THEN [ timer |-> 1, idle |-> 0 ] ELSE [ timer |-> 0, idle |-> 1 ]

\* DrawCycle that takes the timestamp before it looks for a buffer
DrawCycleStampFirst(use, hasFifo, ld, now) ==
    LET b == FindFree(use) IN
    IF b = NoBuffer
    THEN [ buf |-> NoBuffer, inUse |-> use, last_draw |-> now,
           wire |-> << >>, steps |-> << "insert_idle" >>,
           next |-> ScheduleNext(FALSE), abort |-> FALSE ]
    ELSE [ buf |-> b, inUse |-> AttachTo(use, b).inUse, last_draw |-> now,
           wire |-> << "damage", "attach" >> \o PacingRequests(hasFifo)
                       \o << "commit" >>,
           steps |-> << "damage", "attach" >> \o PacingRequests(hasFifo)
                        \o << "commit", "insert_source" >>,
           next |-> ScheduleNext(TRUE), abort |-> FALSE ]

\* DrawCycle that commits the buffer it found without attaching it
DrawCycleNoAttach(use, hasFifo, ld, now) ==
    LET b == FindFree(use) IN
    IF b = NoBuffer
    THEN [ buf |-> NoBuffer, inUse |-> use, last_draw |-> ld, wire |-> << >>,
           steps |-> << "insert_idle" >>,
           next |-> ScheduleNext(FALSE), abort |-> FALSE ]
    ELSE [ buf |-> b, inUse |-> use, last_draw |-> now,
           wire |-> << "damage" >> \o PacingRequests(hasFifo)
                       \o << "commit" >>,
           steps |-> << "damage" >> \o PacingRequests(hasFifo)
                        \o << "commit", "insert_source" >>,
           next |-> ScheduleNext(TRUE), abort |-> FALSE ]

\* DrawCycle that commits the surface before it attaches the buffer
DrawCycleCommitFirst(use, hasFifo, ld, now) ==
    LET b == FindFree(use) IN
    IF b = NoBuffer
    THEN [ buf |-> NoBuffer, inUse |-> use, last_draw |-> ld, wire |-> << >>,
           steps |-> << "insert_idle" >>,
           next |-> ScheduleNext(FALSE), abort |-> FALSE ]
    ELSE [ buf |-> b, inUse |-> AttachTo(use, b).inUse, last_draw |-> now,
           wire |-> << "damage" >> \o PacingRequests(hasFifo)
                       \o << "commit", "attach" >>,
           steps |-> << "damage" >> \o PacingRequests(hasFifo)
                        \o << "commit", "attach", "insert_source" >>,
           next |-> ScheduleNext(TRUE), abort |-> FALSE ]

\* draw, lines 299-332, as a function of the fields it reads
DrawCycle(use, hasFifo, ld, now) ==
    LET b == FindFree(use) IN
    IF b = NoBuffer
    THEN [ buf |-> NoBuffer, inUse |-> use, last_draw |-> ld, wire |-> << >>,
           steps |-> << "insert_idle" >>,
           next |-> ScheduleNext(FALSE), abort |-> FALSE ]
    ELSE LET a == AttachTo(use, b) IN
         IF ~a.ok
         THEN \* expect("buffer attach") panics after the damage request
              [ buf |-> NoBuffer, inUse |-> use, last_draw |-> now,
                wire |-> << "damage" >>, steps |-> << "damage" >>,
                next |-> [ timer |-> 0, idle |-> 0 ], abort |-> TRUE ]
         ELSE [ buf |-> b, inUse |-> a.inUse, last_draw |-> now,
                wire |-> << "damage", "attach" >> \o PacingRequests(hasFifo)
                            \o << "commit" >>,
                steps |-> << "damage", "attach" >> \o PacingRequests(hasFifo)
                             \o << "commit", "insert_source" >>,
                next |-> ScheduleNext(TRUE), abort |-> FALSE ]

\* server: a commit with a fifo barrier queues behind the frames that wait
\* for presentation; without one it replaces the frame that waits
Submit(queue, b, hasFifo) ==
    IF hasFifo THEN Append(queue, b) ELSE << b >>

\* draw() called by the handler op, which leaves t timers and i idle
\* callbacks registered
draw(op, t, i) ==
    LET r == DrawCycle(inUse, fifo, last_draw, clock) IN
    /\ inUse' = r.inUse
    /\ last_draw' = r.last_draw
    /\ wire' = r.wire
    /\ timers' = t + r.next.timer
    /\ idles' = i + r.next.idle
    /\ frames' = IF r.buf # NoBuffer THEN Submit(frames, r.buf, fifo)
                 ELSE frames
    /\ attached' = IF r.buf # NoBuffer THEN attached \cup { r.buf }
                   ELSE attached
    /\ last' = [ op |-> op, drew |-> TRUE, buf |-> r.buf, steps |-> r.steps ]
    /\ failed' = IF r.buf = NoBuffer /\ ~r.abort THEN Append(failed, op)
                 ELSE failed
    /\ pc' = IF r.abort THEN "aborted" ELSE pc

\* ------------------------------------------------- main loop, lines 159-168

\* dispatch: poll for up to 1 ms; every immediate timer registered by now
\* has expired, and the connection may have events to read
Poll ==
    /\ pc = "poll"
    /\ pc' = "events"
    /\ timerReady' = timers
    /\ \E w \in { "none", "ready" } : wl' = w
    /\ \E d \in { 0, 1 } : /\ clock + d <= MaxClock
                           /\ clock' = clock + d
    /\ failed' = << >>
    /\ UNCHANGED << no_fifo, fifoAvail, fifo, exit, first_configure, inUse,
                    last_draw, timers, idles, idleBatch, wire, frames,
                    attached, last >>

\* configure that draws on every event
ConfigureAlwaysDraws ==
    /\ pc = "events"
    /\ wl \in { "ready", "active" }
    /\ wl' = "active"
    /\ first_configure' = FALSE
    /\ draw("configure", timers, idles)
    /\ UNCHANGED << no_fifo, fifoAvail, fifo, exit, clock, timerReady,
                    idleBatch >>

\* WindowHandler::configure, lines 273-286
Configure ==
    /\ pc = "events"
    /\ wl \in { "ready", "active" }
    /\ wl' = "active"
    /\ IF first_configure
       THEN /\ first_configure' = FALSE
            /\ draw("configure", timers, idles)
       ELSE /\ wire' = << >>
            /\ last' = Handler("configure")
            /\ UNCHANGED << first_configure, inUse, last_draw, timers, idles,
                            frames, attached, pc, failed >>
    /\ UNCHANGED << no_fifo, fifoAvail, fifo, exit, clock, timerReady,
                    idleBatch >>

\* WindowHandler::request_close, lines 269-271
RequestClose ==
    /\ pc = "events"
    /\ wl \in { "ready", "active" }
    /\ wl' = "active"
    /\ exit' = TRUE
    /\ wire' = << >>
    /\ last' = Handler("close")
    /\ UNCHANGED << pc, no_fifo, fifoAvail, fifo, first_configure, inUse,
                    last_draw, clock, timers, timerReady, idles, idleBatch,
                    frames, attached, failed >>

\* release that flips the slot's state instead of clearing it
ReleaseToggles(b) ==
    /\ pc = "events"
    /\ wl \in { "ready", "active" }
    /\ b \notin Range(frames)
    /\ wl' = "active"
    /\ inUse' = [ inUse EXCEPT ![b] = ~inUse[b] ]
    /\ attached' = attached \ { b }
    /\ wire' = << >>
    /\ last' = Handler("release")
    /\ UNCHANGED << pc, no_fifo, fifoAvail, fifo, exit, first_configure,
                    last_draw, clock, timers, timerReady, idles, idleBatch,
                    frames, failed >>

\* wl_buffer.release for buffer b: the slot becomes inactive. The server
\* keeps a buffer whose frame still waits for presentation.
Release(b) ==
    /\ pc = "events"
    /\ wl \in { "ready", "active" }
    /\ b \notin Range(frames)
    /\ wl' = "active"
    /\ inUse' = [ inUse EXCEPT ![b] = FALSE ]
    /\ attached' = attached \ { b }
    /\ wire' = << >>
    /\ last' = Handler("release")
    /\ UNCHANGED << pc, no_fifo, fifoAvail, fifo, exit, first_configure,
                    last_draw, clock, timers, timerReady, idles, idleBatch,
                    frames, failed >>

\* the Wayland source has dispatched every event it read
EndBatch ==
    /\ pc = "events"
    /\ wl = "active"
    /\ wl' = "done"
    /\ UNCHANGED << pc, no_fifo, fifoAvail, fifo, exit, first_configure,
                    inUse, last_draw, clock, timers, timerReady, idles,
                    idleBatch, wire, frames, attached, last, failed >>

\* the callback of an expired Timer::immediate(), lines 327-330: draw, then
\* TimeoutAction::Drop removes the source
TimerFire ==
    /\ pc = "events"
    /\ wl # "active"
    /\ timerReady > 0
    /\ timerReady' = timerReady - 1
    /\ draw("timer", timers - 1, idles)
    /\ UNCHANGED << no_fifo, fifoAvail, fifo, exit, first_configure, clock,
                    idleBatch, wl >>

\* dispatch: every ready source was processed; the idle callbacks queued so
\* far are taken out to be run
EndEvents ==
    /\ pc = "events"
    /\ wl \in { "none", "done" }
    /\ timerReady = 0
    /\ pc' = "idles"
    /\ idleBatch' = idles
    /\ idles' = 0
    /\ wl' = "none"
    /\ UNCHANGED << no_fifo, fifoAvail, fifo, exit, first_configure, inUse,
                    last_draw, clock, timers, timerReady, wire, frames,
                    attached, last, failed >>

\* idle dispatch that runs a callback queued by a callback in the same round
IdleRunSameRound ==
    LET r == DrawCycle(inUse, fifo, last_draw, clock) IN
    /\ pc = "idles"
    /\ idleBatch > 0
    /\ idleBatch' = idleBatch - 1 + r.next.idle
    /\ draw("idle", timers, idles - r.next.idle)
    /\ UNCHANGED << no_fifo, fifoAvail, fifo, exit, first_configure, clock,
                    timerReady, wl >>

\* the idle callback of lines 305-307
IdleRun ==
    /\ pc = "idles"
    /\ idleBatch > 0
    /\ idleBatch' = idleBatch - 1
    /\ draw("idle", timers, idles)
    /\ UNCHANGED << no_fifo, fifoAvail, fifo, exit, first_configure, clock,
                    timerReady, wl >>

\* loop that never looks at exit
LoopCheckIgnoresExit ==
    /\ pc = "idles"
    /\ idleBatch = 0
    /\ pc' = "poll"
    /\ UNCHANGED << no_fifo, fifoAvail, fifo, exit, first_configure, inUse,
                    last_draw, clock, timers, timerReady, idles, idleBatch,
                    wl, wire, frames, attached, last, failed >>

\* dispatch returns; lines 164-167
LoopCheck ==
    /\ pc = "idles"
    /\ idleBatch = 0
    /\ pc' = IF exit THEN "done" ELSE "poll"
    /\ UNCHANGED << no_fifo, fifoAvail, fifo, exit, first_configure, inUse,
                    last_draw, clock, timers, timerReady, idles, idleBatch,
                    wl, wire, frames, attached, last, failed >>

\* server: the display presents the oldest frame that waits
Present ==
    /\ pc \in { "poll", "events", "idles" }
    /\ frames # << >>
    /\ frames' = Tail(frames)
    /\ UNCHANGED << pc, no_fifo, fifoAvail, fifo, exit, first_configure,
                    inUse, last_draw, clock, timers, timerReady, idles,
                    idleBatch, wl, wire, attached, last, failed >>

Next ==
    \/ Setup
    \/ Poll
    \/ Configure
    \/ RequestClose
    \/ \E b \in Buffers : Release(b)
    \/ EndBatch
    \/ TimerFire
    \/ EndEvents
    \/ IdleRun
    \/ LoopCheck
    \/ Present

Spec == Init /\ [][Next]_vars

\* the event loop keeps running: every step of main and of dispatch is taken
\* when it can be; the server's events are not forced
Fairness ==
    /\ WF_vars(Setup)
    /\ WF_vars(Poll)
    /\ WF_vars(EndBatch)
    /\ WF_vars(TimerFire)
    /\ WF_vars(EndEvents)
    /\ WF_vars(IdleRun)
    /\ WF_vars(LoopCheck)

LiveSpec == Init /\ [][Next]_vars /\ Fairness

TypeOK ==
    /\ pc \in { "start", "poll", "events", "idles", "done", "aborted" }
    /\ inUse \in [ Buffers -> BOOLEAN ]
    /\ timers \in Nat /\ idles \in Nat
    /\ last_draw \in { NoInstant } \cup (0 .. MaxClock)

\* ------------------------------------------------------------- properties

\* the step is one call of draw(): a timer callback, an idle callback or the
\* first configure
DrawStep ==
    \/ timerReady' = timerReady - 1
    \/ idleBatch' = idleBatch - 1
    \/ first_configure /\ ~first_configure'

\* the step attaches and commits a buffer
SubmitStep == \E b \in Buffers : ~inUse[b] /\ inUse'[b]

AllInUse == \A b \in Buffers : inUse[b]

\* draw callbacks the loop holds
PendingDraws == timers + idles + idleBatch

\* C1: once exit is set, no later step attaches and commits a buffer
C1_NoCommitAfterExit == [][exit => ~SubmitStep]_vars

\* C2 as stated: with a fifo handle, every commit in the requests of a
\* handler has exactly one wait_barrier and then exactly one set_barrier
\* before it
C2_PairBeforeEveryCommit ==
    fifo =>
        \A i \in Positions(wire, "commit") :
            /\ Count(SubSeq(wire, 1, i), "wait_barrier") = 1
            /\ Count(SubSeq(wire, 1, i), "set_barrier") = 1
            /\ \A w \in Positions(wire, "wait_barrier") :
                   \A t \in Positions(wire, "set_barrier") : w < t /\ t < i

\* C2 amended: with a fifo handle, every commit that draw() issues has
\* exactly one wait_barrier and then exactly one set_barrier between the
\* attach of the cycle and the commit; the initial commit of main has none
C2_PairBeforeDrawCommit ==
    (fifo /\ last.drew) =>
        \A i \in Positions(wire, "commit") :
            /\ Count(SubSeq(wire, 1, i), "wait_barrier") = 1
            /\ Count(SubSeq(wire, 1, i), "set_barrier") = 1
            /\ \A w \in Positions(wire, "wait_barrier") :
                   \A t \in Positions(wire, "set_barrier") :
                       \A a \in Positions(wire, "attach") :
                           a < w /\ w < t /\ t < i

C2_Witness ==
    fifo /\ last.drew /\ last.buf # NoBuffer /\ "commit" \in Range(wire)

\* C3: the buffers marked in-use are exactly those attached by a draw and
\* not yet released, and there are never more than the pool holds
C3_InUseIsAttached ==
    /\ InUseSet = attached
    /\ Cardinality(InUseSet) <= BufferCount

C3_Witness == attached = { 1, 3 } /\ last.op = "release"

\* C4 as stated: with a fifo handle at most one committed frame waits for
\* presentation
C4_AtMostOneUnpresented == fifo => Len(frames) <= 1

\* C4 amended: with a fifo handle the frames that wait for presentation are
\* bounded by the pool: each holds a buffer of its own that is in use
C4_UnpresentedWithinPool ==
    fifo =>
        /\ Len(frames) <= BufferCount
        /\ \A i \in DOMAIN frames : inUse[frames[i]]
        /\ \A i, j \in DOMAIN frames : frames[i] = frames[j] => i = j

C4_Witness == fifo /\ Len(frames) = BufferCount

\* C5: every draw cycle schedules exactly one follow-up draw: a timer iff a
\* buffer was free and was submitted, an idle callback iff none was free
C5_OneFollowUp ==
    [][DrawStep =>
         LET t == IF timerReady' = timerReady - 1
                  THEN timers' - (timers - 1) ELSE timers' - timers
             i == idles' - idles
         IN /\ t + i = 1
            /\ t = 1 <=> (~AllInUse /\ SubmitStep)
            /\ i = 1 <=> AllInUse
            /\ t \in { 0, 1 } /\ i \in { 0, 1 }]_vars

C5_Witness ==
    /\ ~exit
    /\ last.op = "idle" /\ last.buf # NoBuffer
    /\ timers = 1 /\ idles = 0

\* C6: a pending idle retry with a free buffer leads to a successful draw,
\* unless exit ends the loop
C6_RetrySucceeds ==
    (/\ pc \in { "poll", "events", "idles" }
     /\ idles + idleBatch > 0
     /\ ~AllInUse)
        ~> (exit \/ (last.drew /\ last.buf # NoBuffer))

C6_Witness ==
    /\ last.op = "idle" /\ last.buf # NoBuffer /\ ~exit

\* C7: a draw with every buffer in use sends no request, leaves the in-use
\* flags and last_draw alone, queues one idle retry and does not abort
C7_SaturatedDrawRetries ==
    [][(DrawStep /\ AllInUse) =>
         /\ wire' = << >>
         /\ inUse' = inUse
         /\ last_draw' = last_draw
         /\ frames' = frames /\ attached' = attached
         /\ idles' = idles + 1
         /\ timers' = IF timerReady' = timerReady - 1 THEN timers - 1
                      ELSE timers
         /\ pc' = pc]_vars

C7_Witness ==
    /\ AllInUse /\ last.drew /\ last.buf = NoBuffer
    /\ idles = 1 /\ last_draw # NoInstant /\ last_draw < clock

\* C8: with no_fifo there is no fifo handle and no handler sends
\* wait_barrier or set_barrier
C8_NoBarrierWhenDisabled ==
    no_fifo =>
        /\ ~fifo
        /\ "wait_barrier" \notin Range(wire)
        /\ "set_barrier" \notin Range(wire)

C8_Witness ==
    no_fifo /\ fifoAvail /\ last.drew /\ "commit" \in Range(wire)

\* C9: before the first configure no draw has run: no buffer was looked up
\* or attached, no draw commit was sent and no draw callback is registered
C9_NoDrawBeforeConfigure ==
    first_configure =>
        /\ PendingDraws = 0 /\ timerReady = 0
        /\ InUseSet = {} /\ attached = {} /\ frames = << >>
        /\ last_draw = NoInstant
        /\ ~last.drew
        /\ "attach" \notin Range(wire) /\ "damage" \notin Range(wire)

C9_Witness == first_configure /\ last.op = "close" /\ pc = "idles"

\* C10: first_configure never becomes true again; the first configure clears
\* it and runs one draw cycle inside the handler; no other step clears it;
\* a later configure runs no draw and schedules nothing
C10_ActiveOnce ==
    [][/\ first_configure' => first_configure
       /\ (first_configure /\ ~first_configure') => Configure
       /\ (Configure /\ first_configure) =>
              /\ ~first_configure'
              /\ last'.drew
              /\ timers' + idles' = timers + idles + 1
       /\ (Configure /\ ~first_configure) =>
              /\ ~last'.drew /\ wire' = << >>
              /\ UNCHANGED << inUse, last_draw, timers, idles, frames,
                              attached, pc >>]_vars

C10_Witness ==
    ~first_configure /\ last.op = "configure" /\ ~last.drew

\* C11: a successful draw submits the lowest-indexed buffer that is not in
\* use and no other; the first configure, with all buffers free, submits
\* buffer 0 and arms one immediate timer
C11_FirstFreeInPoolOrder ==
    [][/\ (DrawStep /\ SubmitStep) =>
              \E b \in Buffers :
                  /\ ~inUse[b]
                  /\ \A c \in Buffers : c < b => inUse[c]
                  /\ inUse' = [ inUse EXCEPT ![b] = TRUE ]
                  /\ last'.buf = b
                  /\ attached' = attached \cup { b }
       /\ (first_configure /\ ~first_configure' /\ InUseSet = {}) =>
              /\ InUseSet' = { 0 }
              /\ last'.buf = 0
              /\ timers' = timers + 1
              /\ idles' = idles]_vars

C11_Witness ==
    /\ last.drew /\ last.buf = 2
    /\ inUse[0] /\ inUse[1] /\ ~inUse[3]

\* C13: a release for a buffer that is not in use changes no in-use flag
\* and nothing of the scheduler
C13_SpuriousReleaseIsNoOp ==
    [][\A b \in Buffers :
           (Release(b) /\ ~inUse[b]) =>
               /\ wire' = << >>
               /\ UNCHANGED << inUse, attached, frames, timers, timerReady,
                               idles, idleBatch, exit, first_configure,
                               last_draw, fifo, pc, failed >>]_vars

\* a release handled while no buffer was ever attached
C13_Witness ==
    first_configure /\ last.op = "release" /\ InUseSet = {}

\* C14: a successful draw issues damage, attach, the barrier pair when a
\* fifo handle exists, commit, and then arms the next draw; the buffer it
\* attached was free before the cycle, is in use after it, and only a
\* release frees a buffer
C14_CycleOrder ==
    /\ []((last.drew /\ last.buf # NoBuffer) =>
              /\ last.steps =
                     IF fifo
                     THEN << "damage", "attach", "wait_barrier",
                             "set_barrier", "commit", "insert_source" >>
                     ELSE << "damage", "attach", "commit", "insert_source" >>
              /\ wire = SubSeq(last.steps, 1, Len(last.steps) - 1)
              /\ inUse[last.buf])
    /\ [][/\ (DrawStep /\ last'.buf # NoBuffer) =>
                 /\ ~inUse[last'.buf]
                 /\ inUse'[last'.buf]
          /\ \A b \in Buffers :
                 (inUse[b] /\ ~inUse'[b]) => Release(b)]_vars

C14_Witness ==
    /\ fifo /\ last.op = "timer" /\ last.buf = 1
    /\ Len(last.steps) = 6 /\ timers = 1

\* C15 as stated: at most one draw finds no buffer in a dispatch round
C15_OneFailedDrawPerRound == Len(failed) <= 1

\* C15 amended: an idle retry runs only when the events and timers of the
\* round are handled; a retry that finds no buffer is queued for a later
\* round; a round has at most one failed timer draw and one failed idle draw
C15_NoBusyPoll ==
    /\ [](/\ Count(failed, "timer") <= 1
          /\ Count(failed, "idle") <= 1
          /\ Len(failed) <= 2)
    /\ [][(idleBatch' = idleBatch - 1) =>
              /\ pc = "idles" /\ timerReady = 0 /\ wl = "none"
              /\ AllInUse => (idles' = idles + 1 /\ timers' = timers)]_vars

C15_Witness == failed = << "timer", "idle" >> /\ idles = 1 /\ idleBatch = 0

\* C16: exit is never cleared; no dispatch round starts once exit is set;
\* the loop ends exactly when a round finishes with exit set, whatever draw
\* callbacks are pending, and under fair dispatch it does end
C16_ExitEndsLoop ==
    /\ [](exit => pc \in { "events", "idles", "done" })
    /\ [](pc = "done" => exit)
    /\ [][exit => exit']_vars
    /\ [][(pc = "idles" /\ pc' # pc) =>
              pc' = IF exit THEN "done" ELSE "poll"]_vars
    /\ exit ~> (pc = "done")

C16_Witness == pc = "done" /\ exit /\ PendingDraws = 1

\* C17: the timer lane and the idle lane together hold at most one draw
\* callback
C17_OneDrawChain ==
    /\ PendingDraws <= 1
    /\ timerReady <= timers

C17_Witness ==
    /\ last.op = "configure" /\ ~last.drew
    /\ idles = 1 /\ timers = 0 /\ AllInUse

\* C18: the abort of expect("buffer attach") is unreachable: the next draw
\* would not abort in any state, and a draw attaches only a buffer that was
\* neither in use nor held by the server
C18_AttachNeverFails ==
    /\ [](/\ pc # "aborted"
          /\ ~DrawCycle(inUse, fifo, last_draw, clock).abort)
    /\ [][(DrawStep /\ last'.buf # NoBuffer) =>
              /\ last'.buf \notin attached
              /\ last'.buf \notin Range(frames)
              /\ "attach" \in Range(wire')]_vars

C18_Witness ==
    /\ last.op = "idle" /\ last.buf = 0
    /\ inUse[1] /\ inUse[2] /\ inUse[3]

====
